---- MODULE Spec2Model ----
(***************************************************************************)
(* The SVR3 operation traits of rust/net/src/svr3/traits.rs: the blanket   *)
(* implementations of Backup, Restore, Remove and Query over any           *)
(* T: Svr3Connect.  Each operation awaits self.connect(), applies `?` to   *)
(* its result and hands the connections, with the caller's arguments, to   *)
(* the matching ppss_ops entry point, whose result it returns.             *)
(*                                                                         *)
(* The ppss_ops entry points, the server quorum behind them and the        *)
(* conversion From<enclave::Error> for Error live outside traits.rs; they  *)
(* are modelled from the specification (the definitions under "Protocol    *)
(* Engine" below).                                                         *)
(***************************************************************************)
EXTENDS Integers, FiniteSets, TLC

\* ------------------------------------------------------------------------
\* Bounds of the model
\* ------------------------------------------------------------------------
MaxBackups == 1
MaxTriesBound == 2

\* two invocations at a time, each slot taken again once its invocation ended
Tasks == {1, 2}
\* Passwords and secrets are only ever compared for equality: two passwords,
\* one secret to back up, and a second 32-byte value for what a restore may
\* recover in its place.
Passwords == {1, 2}
Secrets == {1}
Values == {1, 2}
TryLimits == 1..MaxTriesBound
ShareSets == 1..MaxBackups
\* labels of the Connections bundles alive at a time
Bundles == 1..Cardinality(Tasks)

\* ------------------------------------------------------------------------
\* Values: Result<_, Error> and Result<Connections, enclave::Error>
\* ------------------------------------------------------------------------
NoValue == [tag |-> "None", kind |-> "none", val |-> 0, cause |-> "none"]

Ok(kind, v) == [tag |-> "Ok", kind |-> kind, val |-> v, cause |-> "none"]

Err(kind, cause) == [tag |-> "Err", kind |-> kind, val |-> 0, cause |-> cause]

\* enclave::Error values connect() can fail with
EnclaveErrors == {"network", "attestation"}

\* the result kind each trait method declares
ResultKind(op) ==
    CASE op = "backup" -> "ShareSet"
      [] op = "restore" -> "EvaluationResult"
      [] op = "query" -> "TryCount"
      [] op = "remove" -> "Unit"
      [] OTHER -> "none"

\* the ppss_ops entry point each trait method names
EntryPoint(op) ==
    CASE op = "backup" -> "do_backup"
      [] op = "restore" -> "do_restore"
      [] op = "query" -> "do_query"
      [] op = "remove" -> "do_remove"
      [] OTHER -> "none"

EmptyServer == [state |-> "empty", id |-> 0, password |-> 0, secret |-> 0,
                max_tries |-> 0, tries |-> 0]

NoCall == [entry |-> "none", conn |-> 0, password |-> 0, secret |-> 0,
           max_tries |-> 0, share_set |-> 0]

\* One invocation of a trait method.  op and the four argument fields are
\* what the caller passed; nConnect, connRes and conn follow self.connect();
\* nEngine, call and engOut follow the ppss_ops call; ret is what the caller
\* received.  afterRemove and liveAtCall record what held of the server when
\* the method was called, afterFailed that a restore was called by a caller
\* whose backup had just failed and has been the only invocation since;
\* srv, live, cfg and prevQuery what held when it ended (srv: the quorum as
\* the engine call found it), and drop that the transport dropped during
\* the engine call.
IdleTask == [pc |-> "idle", op |-> "none", password |-> 0,
             secret |-> 0, max_tries |-> 0, share_set |-> 0,
             nConnect |-> 0, connRes |-> "none", conn |-> 0,
             nEngine |-> 0, call |-> NoCall, engOut |-> NoValue,
             ret |-> NoValue, drop |-> FALSE,
             afterRemove |-> FALSE, liveAtCall |-> FALSE,
             afterFailed |-> FALSE, live |-> FALSE,
             cfg |-> 0, prevQuery |-> -1, srv |-> EmptyServer]

NoBackup == [made |-> FALSE, password |-> 0, secret |-> 0, max_tries |-> 0]

VARIABLES
    task,        \* per concurrent invocation: the state of the async fn
    last,        \* the invocation that just ended, until its caller has the result
    connUse,     \* per live bundle: engine calls it has been handed to
    server,      \* the backup the quorum holds for this client
    nShare,      \* ShareSets the engine has produced so far
    issued,      \* per ShareSet: the arguments of the backup call behind it
    configured,  \* max_tries the caller configured for the backup held
    lastQuery,   \* last try-count a query returned for the backup held
    removeDone   \* a remove() of a backup succeeded, no backup stored since

vars == <<task, last, connUse, server, nShare, issued, configured, lastQuery,
          removeDone>>

\* ------------------------------------------------------------------------
\* Protocol Engine and server quorum (ppss_ops, outside traits.rs)
\* ------------------------------------------------------------------------
\* whether a successful restore, too, uses up one try
Policies == {"every_attempt", "on_failure"}

Decremented(srv) == [srv EXCEPT !.tries = srv.tries - 1]

\* do_backup: the quorum stores the masked shares with the try limit and the
\* engine returns the ShareSet for them.
BackupStep(call, srv, id) ==
    [server |-> [state |-> "live", id |-> id, password |-> call.password,
                 secret |-> call.secret, max_tries |-> call.max_tries,
                 tries |-> call.max_tries],
     out |-> Ok("ShareSet", id)]

\* do_restore: wrong is the value a mismatched password recovers (0: the
\* engine reports the failure instead).
RestoreStep(call, srv, pol, wrong) ==
    IF srv.state # "live" \/ srv.id # call.share_set
    THEN [server |-> srv, out |-> Err("ProtocolError", "data_missing")]
    ELSE IF srv.tries = 0
    THEN [server |-> srv, out |-> Err("ProtocolError", "tries_exhausted")]
    ELSE IF call.password = srv.password
    THEN [server |-> IF pol = "every_attempt" THEN Decremented(srv) ELSE srv,
          out |-> Ok("EvaluationResult", srv.secret)]
    ELSE [server |-> Decremented(srv),
          out |-> IF wrong = 0 THEN Err("ProtocolError", "restore_failed")
                  ELSE Ok("EvaluationResult", wrong)]

\* the values a restore with a mismatched password may recover
WrongValues(call, srv) ==
    IF srv.state = "live" /\ srv.id = call.share_set /\ srv.tries > 0
       /\ call.password # srv.password
    THEN ({0} \cup Values) \ {srv.secret}
    ELSE {0}

\* do_query: read-only round trip returning the remaining tries.
QueryStep(call, srv) ==
    IF srv.state = "live"
    THEN [server |-> srv, out |-> Ok("TryCount", srv.tries)]
    ELSE [server |-> srv, out |-> Err("ProtocolError", "data_missing")]

\* do_remove: permanently deletes the shares.
RemoveStep(call, srv) ==
    [server |-> [EmptyServer EXCEPT !.state = "removed"],
     out |-> Ok("Unit", 0)]

EngineStep(call, srv, id, pol, wrong) ==
    CASE call.entry = "do_backup" -> BackupStep(call, srv, id)
      [] call.entry = "do_restore" -> RestoreStep(call, srv, pol, wrong)
      [] call.entry = "do_query" -> QueryStep(call, srv)
      [] call.entry = "do_remove" -> RemoveStep(call, srv)
      [] OTHER -> [server |-> srv, out |-> NoValue]

\* How a run of the engine ends: the exchange completes, or the transport
\* drops before or after the quorum has acted.
Fates == {"ok", "drop_before", "drop_after"}

Applied(fate) == fate \in {"ok", "drop_after"}

EngineOut(step, fate) ==
    IF fate = "ok" THEN step.out ELSE Err("ConnectionError", "transport_drop")

\* From<enclave::Error> for Error, applied by `?` to a failed connect()
FromEnclaveError(e) == Err("ConnectionError", e)

\* ------------------------------------------------------------------------
\* The dispatcher: impl Backup / Restore / Remove / Query for T
\* ------------------------------------------------------------------------

\* Variant of do_backup_call: the password is normalised before it is
\* handed on.
do_backup_call_normalised(s, c) ==
    [entry |-> "do_backup", conn |-> c, password |-> 1,
     secret |-> s.secret, max_tries |-> s.max_tries, share_set |-> 0]

\* Variant of do_backup_call: the try limit handed on is one more than the
\* caller's.
do_backup_call_extra_try(s, c) ==
    [entry |-> "do_backup", conn |-> c, password |-> s.password,
     secret |-> s.secret, max_tries |-> s.max_tries + 1, share_set |-> 0]

\* Variant of do_backup_call: the try limit handed on counts the retries
\* after the first attempt, one less than the caller's.
do_backup_call_retries(s, c) ==
    [entry |-> "do_backup", conn |-> c, password |-> s.password,
     secret |-> s.secret, max_tries |-> s.max_tries - 1, share_set |-> 0]

\* Variant of do_backup_call: the try limit is clamped to the smallest one
\* before it is handed on.
do_backup_call_clamped(s, c) ==
    [entry |-> "do_backup", conn |-> c, password |-> s.password,
     secret |-> s.secret, max_tries |-> 1, share_set |-> 0]

\* the arguments each blanket impl passes to its ppss_ops entry point
do_backup_call(s, c) ==
    [entry |-> "do_backup", conn |-> c, password |-> s.password,
     secret |-> s.secret, max_tries |-> s.max_tries, share_set |-> 0]

\* Variant of do_restore_call: the password is normalised before it is
\* handed on.
do_restore_call_normalised(s, c) ==
    [entry |-> "do_restore", conn |-> c, password |-> 1,
     secret |-> 0, max_tries |-> 0, share_set |-> s.share_set]

\* Variant of do_restore_call: the password is read from state the
\* invocations share, so a concurrent call's password can be the one used.
do_restore_call_shared(s, c) ==
    [entry |-> "do_restore", conn |-> c,
     password |-> IF \E u \in Tasks : task[u].password \notin {0, s.password}
                  THEN CHOOSE p \in Passwords :
                           \E u \in Tasks : task[u].password = p
                                             /\ p # s.password
                  ELSE s.password,
     secret |-> 0, max_tries |-> 0, share_set |-> s.share_set]

do_restore_call(s, c) ==
    [entry |-> "do_restore", conn |-> c, password |-> s.password,
     secret |-> 0, max_tries |-> 0, share_set |-> s.share_set]

\* Variant of do_remove_call: remove delegates to the query entry point.
do_remove_call_query(s, c) ==
    [entry |-> "do_query", conn |-> c, password |-> 0, secret |-> 0,
     max_tries |-> 0, share_set |-> 0]

do_remove_call(s, c) ==
    [entry |-> "do_remove", conn |-> c, password |-> 0, secret |-> 0,
     max_tries |-> 0, share_set |-> 0]

\* Variant of do_query_call: query delegates to the remove entry point.
do_query_call_remove(s, c) ==
    [entry |-> "do_remove", conn |-> c, password |-> 0, secret |-> 0,
     max_tries |-> 0, share_set |-> 0]

do_query_call(s, c) ==
    [entry |-> "do_query", conn |-> c, password |-> 0, secret |-> 0,
     max_tries |-> 0, share_set |-> 0]

EngineCall(s, c) ==
    CASE s.op = "backup" -> do_backup_call(s, c)
      [] s.op = "restore" -> do_restore_call(s, c)
      [] s.op = "remove" -> do_remove_call(s, c)
      [] s.op = "query" -> do_query_call(s, c)
      [] OTHER -> NoCall

\* Variant of Called: the entry point is called before connect() has
\* returned.
Called_early(op, password, secret, max_tries, share_set, after, held) ==
    [IdleTask EXCEPT !.pc = "connecting", !.op = op,
                     !.password = password, !.secret = secret,
                     !.max_tries = max_tries, !.share_set = share_set,
                     !.nConnect = 1, !.nEngine = 1,
                     !.afterRemove = after, !.liveAtCall = held]

\* The async fn is called with its arguments and polled up to
\* self.connect().await.  after and held say, for a restore or a query, what
\* holds of the quorum then.
Called(op, password, secret, max_tries, share_set, after, held) ==
    [IdleTask EXCEPT !.pc = "connecting", !.op = op,
                     !.password = password, !.secret = secret,
                     !.max_tries = max_tries, !.share_set = share_set,
                     !.nConnect = 1,
                     !.afterRemove = after, !.liveAtCall = held]

\* Variant of Connected: the bundle comes from a pool, so the one handed on
\* may be one an earlier connect() returned.
Connected_pooled(s, c) ==
    [s EXCEPT !.pc = "engine", !.connRes = "ok", !.conn = c,
              !.nEngine = s.nEngine + 1,
              !.call = EngineCall(s, IF c > 1 THEN c - 1 ELSE c)]

\* connect() returned Ok(c): `?` yields c, which is moved into the entry
\* point together with the caller's arguments.
Connected(s, c) ==
    [s EXCEPT !.pc = "engine", !.connRes = "ok", !.conn = c,
              !.nEngine = s.nEngine + 1, !.call = EngineCall(s, c)]

\* Variant of ConnectFailed: the failure of connect() is ignored and the
\* entry point is called without connections.
ConnectFailed_ignored(s, e) ==
    [s EXCEPT !.pc = "done", !.connRes = e, !.nEngine = s.nEngine + 1,
              !.call = EngineCall(s, 0),
              !.engOut = Err("ProtocolError", "data_missing"),
              !.ret = Err("ProtocolError", "data_missing")]

\* Variant of ConnectFailed: a failed connect() is tried once more before
\* the error is returned.
ConnectFailed_retried(s, e) ==
    [s EXCEPT !.pc = "done", !.connRes = e, !.nConnect = s.nConnect + 1,
              !.ret = FromEnclaveError(e)]

\* connect() returned Err(e): `?` returns Err(Error::from(e)) to the caller.
ConnectFailed(s, e) ==
    [s EXCEPT !.pc = "done", !.connRes = e, !.ret = FromEnclaveError(e)]

\* Variant of Returned: every error of the entry point is mapped to one
\* error value.
Returned_one_error(s, out) ==
    [s EXCEPT !.pc = "done", !.engOut = out,
              !.ret = IF out.tag = "Err" THEN Err("ProtocolError", "failed")
                      ELSE out]

\* Variant of Returned: a failed entry point yields a default value of the
\* result type.
Returned_default(s, out) ==
    [s EXCEPT !.pc = "done", !.engOut = out,
              !.ret = IF out.tag = "Err" THEN Ok(ResultKind(s.op), 0)
                      ELSE out]

\* Variant of Returned: a connection error of the entry point is reported
\* as a failure of the protocol.
Returned_as_protocol(s, out) ==
    [s EXCEPT !.pc = "done", !.engOut = out,
              !.ret = IF out.tag = "Err" /\ out.kind = "ConnectionError"
                      THEN Err("ProtocolError", out.cause) ELSE out]

\* The entry point's future completed with out, the value of the async fn.
Returned(s, out) ==
    [s EXCEPT !.pc = "done", !.engOut = out, !.ret = out]

\* Variant of Dropped: a future dropped at an await issues a remove to undo
\* what its operation may have done.
Dropped_compensated(s) ==
    [s EXCEPT !.pc = "canceled", !.nEngine = s.nEngine + 1,
              !.call = do_remove_call(s, s.conn)]

\* The caller dropped the future at an await: its locals are dropped.
Dropped(s) == [s EXCEPT !.pc = "canceled"]

\* the quorum holds the backup of ShareSet k, with tries left
Holds(k) == server.state = "live" /\ server.id = k /\ server.tries > 0

\* what held of the quorum when the invocation ended
Observed(s) ==
    [s EXCEPT !.live = Holds(s.share_set), !.srv = server,
              !.cfg = configured, !.prevQuery = lastQuery]

InFlight(u) == task[u].pc \in {"connecting", "engine"}

\* slot t is free for a new invocation
Ready(t) == last = IdleTask /\ task[t].pc = "idle"

\* s, a trait method just called, runs in slot t; a restore that ran alone
\* until now no longer does
Begin(t, s) ==
    /\ task' = [u \in Tasks |->
                   IF u = t THEN s ELSE [task[u] EXCEPT !.afterFailed = FALSE]]
    /\ last' = IdleTask
    /\ UNCHANGED <<connUse, server, nShare, issued, configured, lastQuery,
                   removeDone>>

\* backups the model still has a ShareSet for
BackupsLeft ==
    MaxBackups - nShare - Cardinality({u \in Tasks : task[u].op = "backup"})

backup(t, password, secret, max_tries) ==
    /\ Ready(t)
    /\ BackupsLeft > 0
    /\ Begin(t, Called("backup", password, secret, max_tries, 0, FALSE,
                       FALSE))

\* a backup just returned an error to its caller, and nothing else runs
FailedBackup ==
    /\ last.pc = "done"
    /\ last.op = "backup"
    /\ last.ret.tag = "Err"
    /\ \A u \in Tasks : task[u].pc = "idle"

\* restore is called when nothing is waiting to be received, or by the
\* caller of a backup as it receives the error of that backup.
restore(t, password, share_set) ==
    /\ task[t].pc = "idle"
    /\ last = IdleTask \/ FailedBackup
    /\ Begin(t, [Called("restore", password, 0, 0, share_set, removeDone,
                        Holds(share_set))
                   EXCEPT !.afterFailed = FailedBackup])

remove(t) ==
    /\ Ready(t)
    /\ Begin(t, Called("remove", 0, 0, 0, 0, FALSE, FALSE))

query(t) ==
    /\ Ready(t)
    /\ Begin(t, Called("query", 0, 0, 0, 0, removeDone, FALSE))

\* The bundle a successful connect() returns: a new value, told apart from
\* the bundles the running invocations hold.
FreshBundle ==
    CHOOSE c \in Bundles :
        /\ \A u \in Tasks : task[u].conn # c
        /\ \A d \in Bundles : (\A u \in Tasks : task[u].conn # d) => c <= d

\* Variant of Released: the bundle of an invocation that ended stays with
\* the provider.
Released_kept(c) == connUse

\* the bundle of an invocation that ended is dropped
Released(c) == IF c \in Bundles THEN [connUse EXCEPT ![c] = 0] ELSE connUse

\* Variant of connect_ok: the provider hands out connections to one
\* invocation at a time, so connect() returns only once no other invocation
\* is in its engine call.
connect_ok_serial(t) ==
    LET c == FreshBundle
        s == Connected(task[t], c)
    IN  /\ last = IdleTask
        /\ task[t].pc = "connecting"
        /\ \A u \in Tasks \ {t} : task[u].pc # "engine"
        /\ connUse' = [connUse EXCEPT ![s.call.conn] = @ + 1]
        /\ task' = [task EXCEPT ![t] = s]
        /\ last' = IdleTask
        /\ UNCHANGED <<server, nShare, issued, configured, lastQuery,
                       removeDone>>

connect_ok(t) ==
    LET c == FreshBundle
        s == Connected(task[t], c)
    IN  /\ last = IdleTask
        /\ task[t].pc = "connecting"
        /\ connUse' = [connUse EXCEPT ![s.call.conn] = @ + 1]
        /\ task' = [task EXCEPT ![t] = s]
        /\ last' = IdleTask
        /\ UNCHANGED <<server, nShare, issued, configured, lastQuery,
                       removeDone>>

\* Variant of connect_err: a failed connect() is awaited again instead of
\* being returned.
connect_err_retrying(t, e) ==
    /\ last = IdleTask
    /\ task[t].pc = "connecting"
    /\ task' = [task EXCEPT ![t] = [@ EXCEPT !.connRes = e]]
    /\ UNCHANGED <<last, connUse, server, nShare, issued, configured,
                   lastQuery, removeDone>>

connect_err(t, e) ==
    /\ last = IdleTask
    /\ task[t].pc = "connecting"
    /\ last' = ConnectFailed(Observed(task[t]), e)
    /\ task' = [task EXCEPT ![t] = IdleTask]
    /\ UNCHANGED <<connUse, server, nShare, issued, configured, lastQuery,
                   removeDone>>

\* The quorum acts on the engine call of task t (eff) and the invocation
\* ends as the record s says; out is what the caller received, if anything.
Effects(t, s, step, eff, out) ==
    LET entry == task[t].call.entry
        stored == eff /\ entry = "do_backup"
        removed == eff /\ entry = "do_remove"
    IN  /\ server' = IF eff THEN step.server ELSE server
        /\ nShare' = IF stored THEN nShare + 1 ELSE nShare
        /\ issued' = IF stored
                      THEN [issued EXCEPT ![nShare + 1] =
                               [made |-> TRUE,
                                password |-> task[t].password,
                                secret |-> task[t].secret,
                                max_tries |-> task[t].max_tries]]
                      ELSE issued
        /\ configured' = IF stored THEN task[t].max_tries
                          ELSE IF removed THEN 0 ELSE configured
        /\ lastQuery' = IF stored \/ removed THEN -1
                         ELSE IF entry = "do_query" /\ out.tag = "Ok"
                         THEN out.val ELSE lastQuery
        /\ removeDone' = IF stored THEN FALSE
                          ELSE IF task[t].op = "remove" /\ out.tag = "Ok"
                                  /\ nShare > 0
                          THEN TRUE ELSE removeDone
        /\ last' = IF stored THEN [s EXCEPT !.afterRemove = FALSE] ELSE s
        /\ connUse' = Released(task[t].conn)
        /\ task' = [u \in Tasks |->
                       IF u = t THEN IdleTask
                       ELSE IF stored
                       THEN [task[u] EXCEPT !.afterRemove = FALSE]
                       ELSE task[u]]

Complete(t, fate, pol, wrong) ==
    LET step == EngineStep(task[t].call, server, nShare + 1, pol, wrong)
        out == EngineOut(step, fate)
    IN  /\ last = IdleTask
        /\ task[t].pc = "engine"
        /\ wrong \in WrongValues(task[t].call, server)
        /\ Effects(t, Returned([Observed(task[t]) EXCEPT !.drop = fate # "ok"],
                            out),
                   step, Applied(fate), out)

do_backup(t, fate) ==
    /\ task[t].call.entry = "do_backup"
    /\ Complete(t, fate, "every_attempt", 0)

do_restore(t, fate, pol, wrong) ==
    /\ task[t].call.entry = "do_restore"
    /\ Complete(t, fate, pol, wrong)

do_remove(t, fate) ==
    /\ task[t].call.entry = "do_remove"
    /\ Complete(t, fate, "every_attempt", 0)

do_query(t, fate) ==
    /\ task[t].call.entry = "do_query"
    /\ Complete(t, fate, "every_attempt", 0)

\* The caller cancels at a suspension point; the quorum may already have
\* acted on the request in flight (eff).
cancel(t, eff) ==
    LET step == EngineStep(task[t].call, server, nShare + 1,
                           "every_attempt", 0)
    IN  /\ last = IdleTask
        /\ InFlight(t)
        /\ eff => task[t].pc = "engine"
        /\ Effects(t, Dropped([task[t] EXCEPT !.srv = server]), step, eff,
                   NoValue)

Init ==
    /\ task = [t \in Tasks |-> IdleTask]
    /\ last = IdleTask
    /\ connUse = [c \in Bundles |-> 0]
    /\ server = EmptyServer
    /\ nShare = 0
    /\ issued = [k \in ShareSets |-> NoBackup]
    /\ configured = 0
    /\ lastQuery = -1
    /\ removeDone = FALSE

\* The caller has taken the result of the invocation that ended.
receive ==
    /\ last # IdleTask
    /\ last' = IdleTask
    /\ UNCHANGED <<task, connUse, server, nShare, issued, configured,
                   lastQuery, removeDone>>

\* Nothing else is taken between the end of an invocation and receive (the
\* guard last = IdleTask of the other actions); receive changes nothing but
\* last, so no interleaving of the invocations is lost.
Next ==
    \/ receive
    \/ \E t \in Tasks :
        \/ \E p \in Passwords, x \in Secrets, m \in TryLimits :
               backup(t, p, x, m)
        \/ \E p \in Passwords, k \in ShareSets : restore(t, p, k)
        \/ remove(t)
        \/ query(t)
        \/ connect_ok(t)
        \/ \E e \in EnclaveErrors : connect_err(t, e)
        \/ \E f \in Fates : do_backup(t, f)
        \/ \E f \in Fates, pol \in Policies, w \in {0} \cup Values :
               do_restore(t, f, pol, w)
        \/ \E f \in Fates : do_remove(t, f)
        \/ \E f \in Fates : do_query(t, f)
        \/ \E eff \in BOOLEAN : cancel(t, eff)

Spec == Init /\ [][Next]_vars

\* the connect() of invocation t returns
ConnectReturns(t) ==
    \/ connect_ok(t)
    \/ \E e \in EnclaveErrors : connect_err(t, e)

\* the engine call of invocation t returns
EngineReturns(t) ==
    \/ \E f \in Fates : do_backup(t, f)
    \/ \E f \in Fates, pol \in Policies, w \in {0} \cup Values :
           do_restore(t, f, pol, w)
    \/ \E f \in Fates : do_remove(t, f)
    \/ \E f \in Fates : do_query(t, f)

\* connect() and the engine call each eventually return, and the caller
\* takes every result.  A pending connect() or engine call is not enabled
\* while a result waits to be received, so its fairness is the strong one.
Fairness ==
    /\ WF_vars(receive)
    /\ \A t \in Tasks :
          /\ SF_vars(ConnectReturns(t))
          /\ SF_vars(EngineReturns(t))

FairSpec == Init /\ [][Next]_vars /\ Fairness
\* ------------------------------------------------------------------------
\* Properties
\* ------------------------------------------------------------------------

\* the invocations in the state: the running ones and the one that just ended
Invocations == {task[t] : t \in Tasks} \cup {last}

\* the invocation that just ended returned to its caller (was not canceled)
Ended == last.pc = "done"

\* C1: an engine entry point is invoked only after the same invocation's
\* connect() has returned successfully: no invocation has an engine call
\* while its connect() is pending or has failed, and the engine call holds
\* the bundle that connect() returned.
C1_EngineAfterConnect ==
    \A s \in Invocations :
        /\ s.nEngine > 0 =>
              /\ s.nConnect > 0
              /\ s.connRes = "ok"
              /\ s.call.entry # "none"
              /\ s.call.conn = s.conn
        /\ s.connRes # "ok" => s.nEngine = 0 /\ s.call = NoCall

C1_Witness ==
    \E t \in Tasks :
        /\ task[t].pc = "engine"
        /\ task[t].op = "backup"
        /\ task[t].nEngine = 1
        /\ task[t].connRes = "ok"

\* C2: if connect() fails, the operation returns the connection error to the
\* caller, the engine is never invoked for that invocation, and no ShareSet,
\* EvaluationResult, try-count or success value is returned.
C2_ConnectFailureReturned ==
    \A s \in Invocations :
        s.connRes \in EnclaveErrors =>
            /\ s.pc = "done"
            /\ s.ret.tag = "Err"
            /\ s.ret.kind = "ConnectionError"
            /\ s.ret.cause = s.connRes
            /\ s.ret.val = 0
            /\ s.nEngine = 0
            /\ s.engOut = NoValue

C2_Witness ==
    /\ Ended
    /\ last.op = "restore"
    /\ last.connRes = "attestation"
    /\ last.ret.tag = "Err"

\* C3: when connect() succeeds the caller receives exactly the value the
\* engine returned, success or error; a failure of connect() or of the
\* engine is surfaced as an error naming the cause that was produced, so
\* different causes stay different and no error becomes a success.
C3_ResultVerbatim ==
    Ended =>
        /\ last.connRes = "ok" =>
              /\ last.engOut # NoValue
              /\ last.ret = last.engOut
        /\ last.connRes \in EnclaveErrors =>
              /\ last.ret.tag = "Err"
              /\ last.ret.cause = last.connRes
        /\ last.engOut.tag = "Err" =>
              /\ last.ret.tag = "Err"
              /\ last.ret.kind = last.engOut.kind
              /\ last.ret.cause = last.engOut.cause

C3_Witness ==
    /\ Ended
    /\ last.connRes = "ok"
    /\ last.engOut.tag = "Err"
    /\ last.engOut.cause = "tries_exhausted"
    /\ last.ret = last.engOut

\* C4: connections are made per call and never reused: a bundle is handed to
\* at most one engine call, two running invocations never hold the same
\* bundle, and every engine call holds the bundle its own invocation's
\* connect() returned.
C4_ConnectionsNotReused ==
    /\ \A c \in Bundles : connUse[c] <= 1
    /\ \A s \in Invocations :
          s.nEngine > 0 => s.conn \in Bundles /\ s.call.conn = s.conn
    /\ \A t, u \in Tasks :
          (t # u /\ task[t].conn # 0) => task[t].conn # task[u].conn

C4_Witness ==
    /\ task[1].pc = "engine"
    /\ task[2].pc = "engine"
    /\ task[1].call.conn # task[2].call.conn
    /\ connUse[task[1].conn] = 1
    /\ connUse[task[2].conn] = 1

\* C5: a completed operation returns either a complete result of its own
\* kind (ShareSet, EvaluationResult, try-count, success) or an error, never
\* both nor a mixture; a backup whose connect() or engine step failed
\* returns no ShareSet, and a ShareSet returned is one the quorum stored.
C5_ResultOrError ==
    Ended =>
        /\ last.ret.tag \in {"Ok", "Err"}
        /\ last.ret.tag = "Ok" =>
              /\ last.ret.kind = ResultKind(last.op)
              /\ last.ret.cause = "none"
              /\ last.engOut.tag = "Ok"
        /\ last.ret.tag = "Err" =>
              /\ last.ret.kind \in {"ConnectionError", "ProtocolError"}
              /\ last.ret.val = 0
        /\ (last.op = "backup"
            /\ (last.connRes \in EnclaveErrors \/ last.engOut.tag = "Err")) =>
              /\ last.ret.tag = "Err"
              /\ last.ret.kind # "ShareSet"
        /\ last.ret.kind = "ShareSet" =>
              /\ last.ret.val \in ShareSets
              /\ issued[last.ret.val].made

C5_Witness ==
    /\ Ended
    /\ last.op = "backup"
    /\ last.connRes = "ok"
    /\ last.engOut.tag = "Err"
    /\ last.ret.tag = "Err"

\* the arguments of the invocation s reached its engine call unchanged
OwnArguments(s) ==
    /\ s.call.entry = EntryPoint(s.op)
    /\ s.call.conn = s.conn
    /\ s.op \in {"backup", "restore"} => s.call.password = s.password
    /\ s.op = "backup" =>
          s.call.secret = s.secret /\ s.call.max_tries = s.max_tries
    /\ s.op = "restore" => s.call.share_set = s.share_set

\* C6: two concurrent invocations never see each other's connections or
\* state: under every interleaving each engine call holds the bundle and the
\* arguments of its own invocation, the two bundles differ, and each caller
\* receives the outcome of its own engine call (the backup a caller is given
\* a ShareSet for is the one the quorum stored from that caller's arguments).
C6_Isolation ==
    /\ \A s \in Invocations : s.nEngine > 0 => OwnArguments(s)
    /\ (task[1].pc = "engine" /\ task[2].pc = "engine") =>
          task[1].call.conn # task[2].call.conn
    /\ (Ended /\ last.nEngine > 0) => last.ret = last.engOut
    /\ (Ended /\ last.op = "backup" /\ last.ret.tag = "Ok") =>
          /\ server.state = "live"
          /\ server.id = last.ret.val
          /\ server.password = last.password
          /\ server.secret = last.secret
          /\ server.max_tries = last.max_tries

C6_Witness ==
    /\ task[1].pc = "engine"
    /\ task[2].pc = "engine"
    /\ task[1].op = "restore"
    /\ task[2].op = "backup"
    /\ task[1].password # task[2].password

\* the backup behind the ShareSet the restore that just ended was given
Origin == issued[last.share_set]

\* a restore just ended whose ShareSet is that of a backup made with the same
\* password, which the quorum held, with tries left, when the restore was
\* called and still when it ended
RestoreOfLiveBackup ==
    /\ Ended
    /\ last.op = "restore"
    /\ Origin.made
    /\ Origin.password = last.password
    /\ last.liveAtCall
    /\ last.live

\* C7 as stated: a restore with the password and the ShareSet of a backup,
\* with no remove in between and tries left, returns the original secret.
C7_AsStated ==
    RestoreOfLiveBackup =>
        last.ret = Ok("EvaluationResult", Origin.secret)

\* C7, amended: a restore with the password and the ShareSet of a backup,
\* with no remove in between and tries left, returns the original secret
\* whenever its connect() succeeds and the transport holds during the
\* engine call; otherwise it returns the ConnectionError.
C7_RoundTrip ==
    RestoreOfLiveBackup =>
        /\ (last.connRes = "ok" /\ last.engOut.cause # "transport_drop") =>
              last.ret = Ok("EvaluationResult", Origin.secret)
        /\ last.ret # Ok("EvaluationResult", Origin.secret) =>
              last.ret.tag = "Err" /\ last.ret.kind = "ConnectionError"

C7_Witness ==
    /\ RestoreOfLiveBackup
    /\ Origin.max_tries = MaxTriesBound
    /\ last.ret = Ok("EvaluationResult", Origin.secret)

\* C8: a restore with a password different from the one used at the backup
\* of its ShareSet never returns the original secret.
C8_WrongPassword ==
    (Ended /\ last.op = "restore" /\ Origin.made
     /\ Origin.password # last.password) =>
        last.ret # Ok("EvaluationResult", Origin.secret)

C8_Witness ==
    /\ Ended
    /\ last.op = "restore"
    /\ Origin.made
    /\ Origin.password # last.password
    /\ last.live
    /\ last.ret.tag = "Ok"
    /\ last.ret.val # Origin.secret

\* C9: a query returns at most the max_tries the caller configured at
\* backup, and at most what the query before it returned for the same
\* backup, whatever restores ran in between.
C9_QueryBound ==
    (Ended /\ last.op = "query" /\ last.ret.tag = "Ok") =>
        /\ last.cfg \in TryLimits
        /\ last.ret.val <= last.cfg
        /\ last.prevQuery >= 0 => last.ret.val <= last.prevQuery

C9_Witness ==
    /\ Ended
    /\ last.op = "query"
    /\ last.ret.tag = "Ok"
    /\ last.prevQuery = last.cfg
    /\ last.ret.val < last.prevQuery

\* a restore or query just ended that was called after a successful remove
\* of a backup, with no backup stored since
AfterRemove ==
    /\ Ended
    /\ last.op \in {"restore", "query"}
    /\ last.op = "restore" => Origin.made
    /\ last.afterRemove

\* C10 as stated: after a successful remove, and with no new backup, every
\* restore or query fails with ProtocolError.
C10_AsStated ==
    AfterRemove => last.ret.tag = "Err" /\ last.ret.kind = "ProtocolError"

\* C10, amended: after a successful remove, and with no new backup, every
\* restore or query fails: with ProtocolError when its connect() succeeds
\* and the transport holds during the engine call, with ConnectionError
\* otherwise.
C10_FailsAfterRemove ==
    AfterRemove =>
        /\ last.ret.tag = "Err"
        /\ (last.connRes = "ok" /\ last.engOut.cause # "transport_drop") =>
              last.ret.kind = "ProtocolError"
        /\ last.ret.kind # "ProtocolError" => last.ret.kind = "ConnectionError"

C10_Witness ==
    /\ AfterRemove
    /\ last.op = "restore"
    /\ last.connRes = "ok"
    /\ last.ret.kind = "ProtocolError"

\* the transport dropped while the invocation that just ended was running:
\* during its connect(), or during its engine call
TransportDropped ==
    /\ Ended
    /\ \/ last.connRes = "network"
       \/ last.drop

\* C11: a transport drop at any point of an operation, during connect() or
\* after connect() has succeeded and while the engine is running, surfaces
\* ConnectionError to the caller and yields no ShareSet or EvaluationResult.
C11_TransportDrop ==
    TransportDropped =>
        /\ last.ret.tag = "Err"
        /\ last.ret.kind = "ConnectionError"
        /\ last.ret.val = 0
        /\ last.ret.kind \notin {"ShareSet", "EvaluationResult"}

C11_Witness ==
    /\ TransportDropped
    /\ last.op = "backup"
    /\ last.connRes = "ok"
    /\ last.drop
    /\ last.srv.state = "empty"
    /\ server.state = "live"
    /\ last.ret.kind = "ConnectionError"

\* C12: connect() is called exactly once per invocation, whatever its
\* outcome: no invocation has a second connect() or a second engine call, a
\* failed connect() ends the invocation with no engine call, and a failed
\* engine call ends it after that one connect() and that one engine call.
C12_ConnectOnce ==
    \A s \in Invocations :
        s.pc # "idle" =>
            /\ s.nConnect = 1
            /\ s.nEngine <= 1
            /\ s.connRes \in EnclaveErrors =>
                  s.pc = "done" /\ s.nEngine = 0
            /\ s.engOut.tag = "Err" =>
                  s.pc = "done" /\ s.nEngine = 1

C12_Witness ==
    /\ Ended
    /\ last.op = "query"
    /\ last.connRes = "ok"
    /\ last.engOut = Err("ProtocolError", "data_missing")
    /\ last.nConnect = 1
    /\ last.nEngine = 1

\* C13: each operation delegates to its matching entry point and to no
\* other: the one engine call of an invocation names the entry point of its
\* operation, an invocation without engine call names none, a successful
\* result is of the kind of that operation, a query leaves the quorum as it
\* found it and only a remove or a backup changes what the quorum stores.
C13_MatchingEntryPoint ==
    /\ \A s \in Invocations :
          /\ s.nEngine > 0 => s.call.entry = EntryPoint(s.op)
          /\ s.nEngine = 0 => s.call = NoCall
    /\ (Ended /\ last.ret.tag = "Ok") => last.ret.kind = ResultKind(last.op)
    /\ (Ended /\ last.op = "query") => server = last.srv
    /\ (Ended /\ last.op = "restore") =>
          /\ server.state = last.srv.state
          /\ server.id = last.srv.id
    /\ (Ended /\ last.op = "remove" /\ last.ret.tag = "Ok") =>
          server.state = "removed"

C13_Witness ==
    /\ Ended
    /\ last.op = "query"
    /\ last.call.entry = "do_query"
    /\ last.ret.tag = "Ok"
    /\ last.srv.state = "live"
    /\ server = last.srv

\* C14: the dispatcher forwards the caller's parameters unchanged: the
\* password, secret and max_tries of a do_backup call, and the password and
\* ShareSet of a do_restore call, are those the caller passed to that
\* invocation, and what the quorum has stored when a backup ends is what
\* that caller passed.
C14_ParametersForwarded ==
    /\ \A s \in Invocations :
          /\ s.call.entry = "do_backup" =>
                /\ s.call.password = s.password
                /\ s.call.secret = s.secret
                /\ s.call.max_tries = s.max_tries
                /\ s.password \in Passwords
                /\ s.secret \in Secrets
                /\ s.max_tries \in TryLimits
          /\ s.call.entry = "do_restore" =>
                /\ s.call.password = s.password
                /\ s.call.share_set = s.share_set
                /\ s.password \in Passwords
                /\ s.share_set \in ShareSets
    /\ (Ended /\ last.op = "backup" /\ server # last.srv) =>
          /\ server.password = last.password
          /\ server.secret = last.secret
          /\ server.max_tries = last.max_tries

C14_Witness ==
    \E t, u \in Tasks :
        /\ task[t].pc = "engine"
        /\ task[u].pc = "engine"
        /\ task[t].call.entry = "do_backup"
        /\ task[u].call.entry = "do_restore"
        /\ task[t].call.max_tries = MaxTriesBound
        /\ task[t].call.password = 2
        /\ task[u].call.password = 1
        /\ task[t].password = 2
        /\ task[u].password = 1

\* the call do_restore receives when it is given the bundle and the
\* arguments of the invocation s
OwnRestoreCall(s) ==
    [entry |-> "do_restore", conn |-> s.conn, password |-> s.password,
     secret |-> 0, max_tries |-> 0, share_set |-> s.share_set]

\* C15: a failed operation leaves no state behind that affects a later one:
\* a restore called after a backup failed, at connect() or in the engine,
\* makes one connect() of its own, is handed a bundle no engine call was
\* given before and no other invocation holds, and returns the error of
\* that connect() or what the engine makes of its own arguments and of the
\* quorum as it finds it.
C15_NoStateLeftBehind ==
    /\ \A t \in Tasks :
          (task[t].afterFailed /\ task[t].pc = "engine") =>
              /\ task[t].nConnect = 1
              /\ connUse[task[t].conn] = 1
              /\ \A u \in Tasks \ {t} : task[u].conn # task[t].conn
    /\ (Ended /\ last.afterFailed) =>
          /\ last.op = "restore"
          /\ last.nConnect = 1
          /\ last.connRes \in EnclaveErrors =>
                /\ last.nEngine = 0
                /\ last.ret = FromEnclaveError(last.connRes)
          /\ last.connRes = "ok" =>
                /\ last.call = OwnRestoreCall(last)
                /\ \A u \in Tasks : task[u].conn # last.conn
                /\ \E pol \in Policies :
                      \E w \in WrongValues(last.call, last.srv) :
                          last.ret =
                              EngineOut(RestoreStep(last.call, last.srv, pol, w),
                                        IF last.drop THEN "drop_after" ELSE "ok")

C15_Witness ==
    /\ Ended
    /\ last.afterFailed
    /\ last.connRes = "ok"
    /\ last.srv.state = "live"
    /\ last.ret.tag = "Ok"
    /\ last.ret.val = last.srv.secret

\* the invocation that just ended was canceled by its caller
Canceled == last.pc = "canceled"

\* C16: an operation canceled at a suspension point, during connect() or
\* during the engine call, delivers no result, its bundle and its slot are
\* dropped, and no compensating step is made: it has had its one connect()
\* and at most the one engine call of its operation, and the quorum is as
\* it was or as that one engine call leaves it.
C16_CancelDropsAll ==
    Canceled =>
        /\ last.ret = NoValue
        /\ last.engOut = NoValue
        /\ last.nConnect = 1
        /\ last.nEngine <= 1
        /\ last.nEngine = 0 =>
              /\ last.call = NoCall
              /\ last.conn = 0
              /\ server = last.srv
        /\ last.nEngine = 1 =>
              /\ last.call.entry = EntryPoint(last.op)
              /\ last.conn \in Bundles
              /\ connUse[last.conn] = 0
              /\ \A t \in Tasks : task[t].conn # last.conn
              /\ \/ server = last.srv
                 \/ \E pol \in Policies :
                       \E w \in WrongValues(last.call, last.srv) :
                           server = EngineStep(last.call, last.srv, nShare,
                                               pol, w).server
        /\ (last.op # "remove" /\ server.state = "removed") =>
              last.srv.state = "removed"

C16_Witness ==
    /\ Canceled
    /\ last.op = "backup"
    /\ last.nEngine = 1
    /\ last.srv.state = "empty"
    /\ server.state = "live"
    /\ last.ret = NoValue

\* C17: MaxTries > 0 always: the max_tries of every backup invocation, and
\* the max_tries every do_backup call receives, is a positive integer, and
\* so is the try limit of every backup the quorum holds or has issued a
\* ShareSet for; no backup with max_tries = 0 reaches the engine.
C17_MaxTriesPositive ==
    /\ \A s \in Invocations :
          /\ s.op = "backup" => s.max_tries > 0
          /\ s.call.entry = "do_backup" => s.call.max_tries > 0
    /\ server.state = "live" => server.max_tries > 0
    /\ \A k \in ShareSets : issued[k].made => issued[k].max_tries > 0

C17_Witness ==
    \E t \in Tasks :
        /\ task[t].pc = "engine"
        /\ task[t].call.entry = "do_backup"
        /\ task[t].max_tries = 1
        /\ task[t].call.max_tries = 1

\* C18: the dispatcher imposes no ordering between invocations: once the
\* caller has taken the result of the invocation that ended last, every
\* pending connect() can return, with either outcome, every pending engine
\* call can return and every free slot can take a new invocation, whatever
\* the other invocation is doing; so with two invocations pending either
\* one can take its next step first.
C18_NoOrdering ==
    last = IdleTask =>
        \A t \in Tasks :
            /\ task[t].pc = "connecting" =>
                  /\ ENABLED connect_ok(t)
                  /\ \A e \in EnclaveErrors : ENABLED connect_err(t, e)
            /\ task[t].pc = "engine" => ENABLED EngineReturns(t)
            /\ task[t].pc = "idle" => ENABLED query(t)

\* both invocations are in their engine calls, the one of slot 2 holding the
\* bundle handed out first, and either engine call can return first
C18_Witness ==
    /\ last = IdleTask
    /\ task[1].pc = "engine"
    /\ task[2].pc = "engine"
    /\ task[2].conn = 1
    /\ task[1].conn = 2
    /\ ENABLED EngineReturns(1)
    /\ ENABLED EngineReturns(2)

\* C19: every invocation that is not canceled eventually returns to its
\* caller, provided connect() and the engine call each eventually return:
\* an invocation in flight eventually leaves its slot, and no invocation
\* has made more than one connect() or more than one engine call.
C19_Terminates ==
    /\ [](\A s \in Invocations : s.nConnect <= 1 /\ s.nEngine <= 1)
    /\ \A t \in Tasks : InFlight(t) ~> ~InFlight(t)

C19_Witness ==
    /\ Ended
    /\ last.op = "remove"
    /\ last.nConnect = 1
    /\ last.nEngine = 1
    /\ last.ret = Ok("Unit", 0)
    /\ \E t \in Tasks : InFlight(t)

====
